---- MODULE Spec2Model ----
(***************************************************************************)
(* A model of PDA.c: a push down automaton simulated by a recursive,       *)
(* backtracking search (run_pda) over a grammar table, driven by main.     *)
(*                                                                         *)
(* Characters are one-letter strings, C strings are sequences of them.     *)
(* The recursion of run_pda is the sequence `frames`: one record per       *)
(* activation, the last one being the running activation.  Every           *)
(* activation owns its copy of `struct stack` (passed by value).           *)
(***************************************************************************)
EXTENDS Integers, Sequences, FiniteSets, TLC

\* ------------------------------------------------------------------ bounds
\* Longest command line word enumerated exhaustively.
MaxWordLen == 5
\* Largest argc enumerated (argc counts the program name).
MaxArgc == 3
\* The activations of run_pda the machine's call stack has room for: one
\* more call and the process is killed.  (An activation holds two struct
\* stack; a real call stack has room for some thousands.  The searches
\* that return need fewer than 20 here.)
MaxCallDepth == 64

\* ------------------------------------------------------- program constants
\* char content[1024]
STACK_SIZE == 1024
EXIT_SUCCESS == 0
EXIT_FAILURE == 1

\* 'A' .. 'Z' in order: the index NTERM - 'A' of the grammar table.
UpperSeq ==
  << "A", "B", "C", "D", "E", "F", "G", "H", "I", "J", "K", "L", "M",
     "N", "O", "P", "Q", "R", "S", "T", "U", "V", "W", "X", "Y", "Z" >>

NUM_NONTERMS == Len(UpperSeq)

isupper(c) == \E i \in 1..NUM_NONTERMS : UpperSeq[i] = c

\* A grammar slot that no RULE() initialises: a NULL pointer.
NullRule == [null |-> TRUE, rules |-> << >>]

\* RULE(NTERM, ...): the array of the right hand sides, NULL terminated
\* (the terminator is the position Len(rules) + 1).
RULE(rhs) == [null |-> FALSE, rules |-> rhs]

\* const static DEFINE_GRAMMAR(wtf)
wtf ==
  [N \in {UpperSeq[i] : i \in 1..NUM_NONTERMS} |->
     CASE N = "S" -> RULE(<< <<"A", "B">> >>)
       [] N = "A" -> RULE(<< <<"a", "A">>, <<"a">> >>)
       [] N = "B" -> RULE(<< <<"b", "B", "c">>, <<"b", "c">> >>)
       [] OTHER   -> NullRule]

Upper == { UpperSeq[i] : i \in 1..NUM_NONTERMS }

\* Other tables DEFINE_GRAMMAR/RULE can declare, handed to run_pda in place
\* of wtf.
\* S -> S | a
Cyclic ==
  [N \in Upper |-> IF N = "S" THEN RULE(<< <<"S">>, <<"a">> >>)
                   ELSE NullRule]

\* S -> aSb | (the empty string)
Eps ==
  [N \in Upper |-> IF N = "S" THEN RULE(<< <<"a", "S", "b">>, << >> >>)
                   ELSE NullRule]

\* S -> aX | Ab | b, A -> a | ab, with X never declared
Undef ==
  [N \in Upper |->
     CASE N = "S" -> RULE(<< <<"a", "X">>, <<"A", "b">>, <<"b">> >>)
       [] N = "A" -> RULE(<< <<"a">>, <<"a", "b">> >>)
       [] OTHER   -> NullRule]

\* S -> aY | Yb | a, with Y declared and no rule in its array: the entry
\* (const char *[]){ NULL }, the end marker alone
NoRule ==
  [N \in Upper |->
     CASE N = "S" -> RULE(<< <<"a", "Y">>, <<"Y", "b">>, <<"a">> >>)
       [] N = "Y" -> RULE(<< >>)
       [] OTHER   -> NullRule]

\* S -> (the empty string) | aS | b, the empty right hand side first
EpsFirst ==
  [N \in Upper |->
     IF N = "S" THEN RULE(<< << >>, <<"a", "S">>, <<"b">> >>)
     ELSE NullRule]

\* The characters command line words are made of.
Alphabet == {"a", "b", "c"}

RECURSIVE WordsOfLen(_)
WordsOfLen(n) ==
  IF n = 0 THEN { << >> }
  ELSE { Append(w, c) : w \in WordsOfLen(n - 1), c \in Alphabet }

Words == UNION { WordsOfLen(n) : n \in 0..MaxWordLen }

\* Arguments after the first one (only their number matters to main).
ExtraWords == WordsOfLen(0) \cup WordsOfLen(1)

VARIABLES
  g,        \* the grammar handed to dump_grammar and run_pda
  argc,     \* main's argc
  argv,     \* argv[1 .. argc-1]
  s,        \* main's local struct stack s
  pc,       \* where main is
  ret,      \* main's local ret
  rv,       \* the value the last returned run_pda activation returned
  frames,   \* the activations of run_pda, innermost last
  out,      \* stdout, line by line
  err,      \* stderr, line by line
  status,   \* the exit status of the process
  oob,      \* indices of tmp.content written outside 0 .. STACK_SIZE-1
  first     \* what a caller that searches twice keeps of its first search

vars == << g, argc, argv, s, pc, ret, rv, frames, out, err, status, oob,
           first >>

\* what no action of the program changes
env == << g, argc, argv, s, first >>

\* ----------------------------------------------------------------- helpers
Reverse(q) == [i \in 1..Len(q) |-> q[Len(q) + 1 - i]]

\* strlen(word) for a read head `word` characters into argv[1]
strlen(word) == Len(argv[1]) - word

\* the string the read head points to
Rest(word) == SubSeq(argv[1], word + 1, Len(argv[1]))

\* struct stack s = { .top = 1, .content = { 'S' } }
InitialStack == [content |-> << "S" >>, top |-> 1]

\* for_each_production as an if: only the first rule is ever tried
OnlyFirstProduction(gr, nterm, rule_pointer) ==
  /\ ~ gr[nterm].null
  /\ rule_pointer <= Len(gr[nterm].rules)
  /\ rule_pointer <= 1

\* the loop condition RULE && *RULE && **RULE: the empty string taken for
\* the end marker
HasProductionNonEmpty(gr, nterm, rule_pointer) ==
  /\ ~ gr[nterm].null
  /\ rule_pointer <= Len(gr[nterm].rules)
  /\ gr[nterm].rules[rule_pointer] # << >>

\* for_each_production: the loop condition RULE && *RULE
HasProduction(gr, nterm, rule_pointer) ==
  /\ ~ gr[nterm].null
  /\ rule_pointer <= Len(gr[nterm].rules)

\* the rule copied from its first character (*front++ = *rule++), which
\* leaves the last character of the rule uppermost
PushRuleForward(stack, rule) ==
  [content |-> stack.content \o rule,
   top     |-> stack.top + Len(rule)]

\* struct stack tmp = stack; then the rule copied from the end (*back-- =
\* *rule++), the first character of the rule uppermost; tmp.top += rule_len.
\* An empty rule writes nothing and leaves top as it is (back is computed
\* and never used).
PushRule(stack, rule) ==
  [content |-> stack.content \o Reverse(rule),
   top     |-> stack.top + Len(rule)]

\* back = tmp.content + tmp.top + rule_len, the - 1 left out: the copy
\* loop writes one place higher
WrittenOffByOne(stack, rule) == { stack.top + k : k \in 1..Len(rule) }

\* The indices of tmp.content the copy loop writes.
Written(stack, rule) == { stack.top + k - 1 : k \in 1..Len(rule) }

\* stack.content[stack.top - 1] read with top left as it is
PopPeek(stack) == stack

\* stack.content[--stack.top]
Pop(stack) ==
  [content |-> SubSeq(stack.content, 1, stack.top - 1),
   top     |-> stack.top - 1]

\* The printf of lines 98-104: the word left, the stack uppermost first.
ConfigLine(f) ==
  [kind |-> "config", a |-> Rest(f.word), b |-> Reverse(f.stack.content)]

\* A new activation run_pda(g, word, stack)
Activation(word, stack) ==
  [word |-> word, stack |-> stack, top_stack |-> "", rule_pointer |-> 0,
   pc |-> "entry"]

Top == frames[Len(frames)]
\* the stack handed over by reference: what the returning activation did
\* to it is what its caller finds
CallerSharing ==
  [i \in 1..Len(frames) - 1 |->
     IF i = Len(frames) - 1
     THEN [frames[i] EXCEPT !.stack = frames[Len(frames)].stack]
     ELSE frames[i]]

\* the activations left when the running one returns
Caller == SubSeq(frames, 1, Len(frames) - 1)
SetTop(f) == [frames EXCEPT ![Len(frames)] = f]

Running(label) == /\ pc = "in_run_pda"
                  /\ frames # << >>
                  /\ Top.pc = label

\* ------------------------------------------------------------------- main
\* the usage error reported with return EXIT_FAILURE
UsageAsFailure ==
  /\ pc = "start"
  /\ argc # 2
  /\ err' = Append(err, "Usage: word")
  /\ status' = EXIT_FAILURE % 256
  /\ pc' = "exit"
  /\ UNCHANGED << env, ret, rv, frames, out, oob >>

\* if (argc != 2) { fprintf(stderr, usage); return -1; }
Usage ==
  /\ pc = "start"
  /\ argc # 2
  /\ err' = Append(err, "Usage: word")
  /\ status' = (-1) % 256
  /\ pc' = "exit"
  /\ UNCHANGED << env, ret, rv, frames, out, oob >>

\* dump_grammar(wtf): one line per rule, nonterminals in index order
RECURSIVE DumpLines(_, _)
DumpLines(gr, i) ==
  IF i > NUM_NONTERMS THEN << >>
  ELSE (IF gr[UpperSeq[i]].null THEN << >>
        ELSE [k \in 1..Len(gr[UpperSeq[i]].rules) |->
                [kind |-> "rule", a |-> << UpperSeq[i] >>,
                 b |-> gr[UpperSeq[i]].rules[k]]])
       \o DumpLines(gr, i + 1)

dump_grammar ==
  /\ pc = "start"
  /\ argc = 2
  /\ out' = out \o DumpLines(g, 1)
  /\ pc' = "dumped"
  /\ UNCHANGED << env, ret, rv, frames, err, status, oob >>

\* ret = run_pda(wtf, argv[1], s): the call
CallRunPda ==
  /\ pc = "dumped"
  /\ frames' = << Activation(0, s) >>
  /\ pc' = "in_run_pda"
  /\ UNCHANGED << env, ret, rv, out, err, status, oob >>

\* ret = ...; printf(ret ? "Yep" : "Nay"); return ret ? EXIT_SUCCESS : ...
Finish ==
  /\ pc = "in_run_pda"
  /\ frames = << >>
  /\ ret' = rv
  /\ out' = Append(out, [kind |-> "verdict",
                         a |-> << IF rv THEN "Yep" ELSE "Nay" >>, b |-> << >>])
  /\ status' = (IF rv THEN EXIT_SUCCESS ELSE EXIT_FAILURE) % 256
  /\ pc' = "exit"
  /\ UNCHANGED << env, rv, frames, err, oob >>

\* ---------------------------------------------------------------- run_pda
\* A call run_pda(g, word, stack) by the running activation, which waits
\* as `caller`.  With no room for one more activation the process is killed.
Call(caller, word, stack) ==
  IF Len(frames) < MaxCallDepth
  THEN /\ frames' = Append(SetTop(caller), Activation(word, stack))
       /\ pc' = pc
  ELSE /\ frames' = frames
       /\ pc' = "killed"

\* `word` as one read head shared by all activations: a caller goes on
\* from where its callee stopped
ReturnSharedWord(v) ==
  /\ rv' = v
  /\ frames' = IF Len(frames) = 1 THEN << >>
                ELSE [Caller EXCEPT ![Len(frames) - 1].word = Top.word]

\* return v
Return(v) ==
  /\ rv' = v
  /\ frames' = Caller

\* an empty stack accepted whatever is left of the word: return true
EmptyStackAlwaysTrue ==
  /\ Running("entry")
  /\ Top.stack.top = 0
  /\ out' = Append(out, ConfigLine(Top))
  /\ Return(TRUE)
  /\ UNCHANGED << env, pc, ret, err, status, oob >>

\* lines 98-111: print the configuration; empty stack: return strlen == 0
EmptyStack ==
  /\ Running("entry")
  /\ Top.stack.top = 0
  /\ out' = Append(out, ConfigLine(Top))
  /\ Return(strlen(Top.word) = 0)
  /\ UNCHANGED << env, pc, ret, err, status, oob >>

\* top_input = word[0]; word++ moved up, before the branch on isupper: an
\* expansion has read a character too
PopTopReading ==
  /\ Running("entry")
  /\ Top.stack.top # 0
  /\ out' = Append(out, ConfigLine(Top))
  /\ LET c == Top.stack.content[Top.stack.top] IN
       frames' = SetTop([Top EXCEPT
                           !.top_stack = c,
                           !.stack = Pop(Top.stack),
                           !.word = IF isupper(c) /\ strlen(@) # 0
                                    THEN @ + 1 ELSE @,
                           !.rule_pointer = IF isupper(c) THEN 1 ELSE 0,
                           !.pc = IF isupper(c) THEN "loop" ELSE "terminal"])
  /\ UNCHANGED << env, pc, ret, rv, err, status, oob >>

\* the comparison with the input tried before the test of isupper: a
\* nonterminal equal to the next character is matched like a terminal
PopTopComparingFirst ==
  /\ Running("entry")
  /\ Top.stack.top # 0
  /\ out' = Append(out, ConfigLine(Top))
  /\ LET c == Top.stack.content[Top.stack.top]
         expand == /\ isupper(c)
                   /\ ~ (strlen(Top.word) # 0 /\ argv[1][Top.word + 1] = c)
     IN frames' = SetTop([Top EXCEPT
                            !.top_stack = c,
                            !.stack = Pop(Top.stack),
                            !.rule_pointer = IF expand THEN 1 ELSE 0,
                            !.pc = IF expand THEN "loop" ELSE "terminal"])
  /\ UNCHANGED << env, pc, ret, rv, err, status, oob >>

\* lines 98-122: print the configuration, pop the uppermost symbol and
\* branch on isupper
PopTop ==
  /\ Running("entry")
  /\ Top.stack.top # 0
  /\ out' = Append(out, ConfigLine(Top))
  /\ LET c == Top.stack.content[Top.stack.top] IN
       frames' = SetTop([Top EXCEPT
                           !.top_stack = c,
                           !.stack = Pop(Top.stack),
                           !.rule_pointer = IF isupper(c) THEN 1 ELSE 0,
                           !.pc = IF isupper(c) THEN "loop" ELSE "terminal"])
  /\ UNCHANGED << env, pc, ret, rv, err, status, oob >>

\* lines 126-155: the loop condition holds: copy the stack, push the rule,
\* call run_pda(g, word, tmp).  A push beyond content[STACK_SIZE-1] is
\* undefined behaviour: whatever the process does next, it ends killed, or
\* with one of main's two verdicts.
TryProduction ==
  /\ Running("loop")
  /\ HasProduction(g, Top.top_stack, Top.rule_pointer)
  /\ LET rule == g[Top.top_stack].rules[Top.rule_pointer]
         tmp  == PushRule(Top.stack, rule)
         bad  == { i \in Written(Top.stack, rule) : i >= STACK_SIZE }
     IN IF bad = {}
        THEN /\ Call([Top EXCEPT !.pc = "called"], Top.word, tmp)
             /\ UNCHANGED << status, oob, ret >>
        ELSE /\ oob' = oob \cup bad
             /\ frames' = Append(SetTop([Top EXCEPT !.pc = "called"]),
                                 Activation(Top.word, tmp))
             /\ \E how \in {"killed", "accept", "reject"} :
                  /\ pc' = IF how = "killed" THEN "killed" ELSE "exit"
                  /\ status' = IF how = "accept" THEN EXIT_SUCCESS
                               ELSE EXIT_FAILURE
                  /\ ret' = (how = "accept")
  /\ UNCHANGED << env, out, err, rv >>

\* RULE++ twice: every other rule is skipped
ProductionReturnedSkipping ==
  /\ Running("called")
  /\ IF rv
     THEN Return(TRUE)
     ELSE /\ frames' = SetTop([Top EXCEPT !.rule_pointer = @ + 2,
                                          !.pc = "loop"])
          /\ rv' = rv
  /\ UNCHANGED << env, pc, ret, out, err, status, oob >>

\* the value of the call dropped: the loop goes on after a success
ProductionReturnedNoShortCircuit ==
  /\ Running("called")
  /\ frames' = SetTop([Top EXCEPT !.rule_pointer = @ + 1, !.pc = "loop"])
  /\ rv' = rv
  /\ UNCHANGED << env, pc, ret, out, err, status, oob >>

\* lines 155-156: the call returned: return true, or go on with RULE++
ProductionReturned ==
  /\ Running("called")
  /\ IF rv
     THEN Return(TRUE)
     ELSE /\ frames' = SetTop([Top EXCEPT !.rule_pointer = @ + 1,
                                          !.pc = "loop"])
          /\ rv' = rv
  /\ UNCHANGED << env, pc, ret, out, err, status, oob >>

\* a nonterminal without a rule taken for one that expands to nothing: the
\* search goes on with the stack below it
NoProductionLeftSkipping ==
  /\ Running("loop")
  /\ ~ HasProduction(g, Top.top_stack, Top.rule_pointer)
  /\ IF g[Top.top_stack].rules = << >>
     THEN /\ Call([Top EXCEPT !.pc = "matched"], Top.word, Top.stack)
          /\ rv' = rv
     ELSE /\ Return(FALSE)
          /\ pc' = pc
  /\ UNCHANGED << env, ret, out, err, status, oob >>

\* line 161: the loop is over: return false
NoProductionLeft ==
  /\ Running("loop")
  /\ ~ HasProduction(g, Top.top_stack, Top.rule_pointer)
  /\ Return(FALSE)
  /\ UNCHANGED << env, pc, ret, out, err, status, oob >>

\* lines 169-170: no character left in the word: return false
WordOver ==
  /\ Running("terminal")
  /\ strlen(Top.word) = 0
  /\ Return(FALSE)
  /\ UNCHANGED << env, pc, ret, out, err, status, oob >>

\* return of a value that was never set: whatever the last return left
MismatchStale ==
  /\ Running("terminal")
  /\ strlen(Top.word) # 0
  /\ argv[1][Top.word + 1] # Top.top_stack
  /\ Return(rv)
  /\ UNCHANGED << env, pc, ret, out, err, status, oob >>

\* lines 175-187: top_input = word[0]; word++; the characters differ:
\* return false
Mismatch ==
  /\ Running("terminal")
  /\ strlen(Top.word) # 0
  /\ argv[1][Top.word + 1] # Top.top_stack
  /\ Return(FALSE)
  /\ UNCHANGED << env, pc, ret, out, err, status, oob >>

\* the word++ left out: the recursion reads the same character again
MatchWithoutAdvance ==
  /\ Running("terminal")
  /\ strlen(Top.word) # 0
  /\ argv[1][Top.word + 1] = Top.top_stack
  /\ Call([Top EXCEPT !.pc = "matched"], Top.word, Top.stack)
  /\ UNCHANGED << env, ret, rv, out, err, status, oob >>

\* if (top_input = top_stack): an assignment for the comparison, true for
\* every character
MatchAssigning ==
  /\ Running("terminal")
  /\ strlen(Top.word) # 0
  /\ Call([Top EXCEPT !.word = @ + 1, !.pc = "matched"],
          Top.word + 1, Top.stack)
  /\ UNCHANGED << env, ret, rv, out, err, status, oob >>

\* lines 175-182: top_input = word[0]; word++; the characters are equal:
\* return run_pda(g, word, stack): the call
Match ==
  /\ Running("terminal")
  /\ strlen(Top.word) # 0
  /\ argv[1][Top.word + 1] = Top.top_stack
  /\ Call([Top EXCEPT !.word = @ + 1, !.pc = "matched"],
          Top.word + 1, Top.stack)
  /\ UNCHANGED << env, ret, rv, out, err, status, oob >>

\* line 182: the call returned: return its value
MatchReturned ==
  /\ Running("matched")
  /\ Return(rv)
  /\ UNCHANGED << env, pc, ret, out, err, status, oob >>

run_pda ==
  \/ EmptyStack
  \/ PopTop
  \/ TryProduction
  \/ ProductionReturned
  \/ NoProductionLeft
  \/ WordOver
  \/ Mismatch
  \/ Match
  \/ MatchReturned

main ==
  \/ Usage
  \/ dump_grammar
  \/ CallRunPda
  \/ Finish

Next == main \/ run_pda

\* ------------------------------------------------- the language of a grammar
\* What a grammar generates, by the definition of derivation and not by
\* search: Derived is the least set of items << alpha, i, j >> such that the
\* form alpha derives the characters i+1 .. j of the word w.
RulesOf(gr, N) == { gr[N].rules[k] : k \in 1..Len(gr[N].rules) }

Suffixes(gr) ==
  UNION { { SubSeq(r, p, Len(r)) : p \in 1..Len(r) + 1 } :
          r \in UNION { RulesOf(gr, N) : N \in Upper } \cup { << "S" >> } }

Items(gr, w) ==
  { << al, i, j >> : al \in Suffixes(gr), i \in 0..Len(w), j \in 0..Len(w) }

HeadDerives(gr, w, X, i, k, D) ==
  IF isupper(X)
  THEN \E r \in RulesOf(gr, X) : << r, i, k >> \in D
  ELSE k = i + 1 /\ w[k] = X

DeriveStep(gr, w, D) ==
  { it \in Items(gr, w) :
      \/ it \in D
      \/ it[1] = << >> /\ it[2] = it[3]
      \/ /\ it[1] # << >>
         /\ \E k \in it[2]..it[3] :
              /\ << Tail(it[1]), k, it[3] >> \in D
              /\ HeadDerives(gr, w, Head(it[1]), it[2], k, D) }

RECURSIVE Derived(_, _, _)
Derived(gr, w, D) ==
  LET E == DeriveStep(gr, w, D) IN IF E = D THEN D ELSE Derived(gr, w, E)

InLanguage(gr, w) == << << "S" >>, 0, Len(w) >> \in Derived(gr, w, {})

\* A nonterminal is nullable when it derives the empty string; M is a left
\* corner of N when a rule of N has M after nullable symbols only; a grammar
\* is left recursive when a nonterminal is a left corner, directly or
\* through others, of itself.
RECURSIVE Nullable(_, _)
Nullable(gr, Z) ==
  LET Y == Z \cup { N \in Upper :
                      \E r \in RulesOf(gr, N) :
                        \A p \in 1..Len(r) : r[p] \in Z }
  IN IF Y = Z THEN Z ELSE Nullable(gr, Y)

LeftCorners(gr, N) ==
  UNION { { r[p] : p \in { q \in 1..Len(r) :
                             /\ isupper(r[q])
                             /\ \A o \in 1..q - 1 :
                                  r[o] \in Nullable(gr, {}) } } :
          r \in RulesOf(gr, N) }

RECURSIVE LeftReach(_, _)
LeftReach(gr, Z) ==
  LET Y == Z \cup UNION { LeftCorners(gr, M) : M \in Z }
  IN IF Y = Z THEN Z ELSE LeftReach(gr, Y)

LeftRecursive(gr) ==
  \E N \in Upper : N \in LeftReach(gr, LeftCorners(gr, N))

\* The words of the language of wtf: a^n b^m c^m with n, m >= 1
AnBmCm(n, m) ==
  [i \in 1..n + 2 * m |-> IF i <= n THEN "a"
                          ELSE IF i <= n + m THEN "b" ELSE "c"]

IsAnBmCm(w) ==
  \E n \in 1..Len(w), m \in 1..Len(w) : w = AnBmCm(n, m)

\* The sentential forms of leftmost derivations: the leftmost nonterminal
\* of a form replaced by one of its right hand sides.
LeftSteps(gr, form) ==
  LET at == { i \in 1..Len(form) : isupper(form[i]) }
  IN IF at = {} THEN {}
     ELSE LET i == CHOOSE k \in at : \A m \in at : k <= m
          IN { SubSeq(form, 1, i - 1) \o r \o SubSeq(form, i + 1, Len(form)) :
                 r \in RulesOf(gr, form[i]) }

\* the forms of at most n symbols that leftmost steps reach from the
\* forms F through forms of at most n symbols
RECURSIVE LeftClosure(_, _, _)
LeftClosure(gr, F, n) ==
  LET new == { f \in UNION { LeftSteps(gr, x) : x \in F } : Len(f) <= n }
  IN IF new \subseteq F THEN F ELSE LeftClosure(gr, F \cup new, n)

\* ------------------------------------------------------------------- Init
NoFirst == [done |-> FALSE, out |-> << >>, ret |-> FALSE]

Start ==
  /\ first = NoFirst
  /\ pc = "start"
  /\ ret = FALSE
  /\ rv = FALSE
  /\ frames = << >>
  /\ out = << >>
  /\ err = << >>
  /\ status = 0
  /\ oob = {}

\* The program as built: the grammar is wtf, the command line is any.
Init ==
  /\ g = wtf
  /\ argc \in 1..MaxArgc
  /\ argv \in IF argc = 1 THEN { << >> }
              ELSE IF argc = 2 THEN { << w >> : w \in Words }
              ELSE { << w >> \o x : w \in Words,
                                    x \in [1..argc - 2 -> ExtraWords] }
  /\ s = InitialStack
  /\ Start

Spec == Init /\ [][Next]_vars

\* run_pda on other grammars: the program with its table replaced.
Grammars == { wtf, Eps, Undef, Cyclic, NoRule, EpsFirst }

GrammarWords == UNION { WordsOfLen(n) : n \in 0..MaxWordLen - 1 }

InitGrammars ==
  /\ argc \in 1..2
  /\ g \in IF argc = 1 THEN { wtf } ELSE Grammars
  /\ argv \in IF argc = 1 THEN { << >> }
              ELSE { << w >> : w \in GrammarWords }
  /\ s = InitialStack
  /\ Start

\* A sequential program takes its next step whenever it has one.
SpecGrammars == InitGrammars /\ [][Next]_vars /\ WF_vars(Next)

\* run_pda on stacks that are nearly full.  The built-in grammar reaches the
\* stack of k letters c under one B when it has read one a and k letters b
\* (k <= STACK_SIZE - 2; argv[1] is then what is left of the command line
\* word).
FullStack(k) ==
  [content |-> [i \in 1..k + 1 |-> IF i <= k THEN "c" ELSE "B"],
   top     |-> k + 1]

FullWords == UNION { WordsOfLen(n) : n \in 0..MaxWordLen - 2 }

InitFull ==
  /\ g = wtf
  /\ argc \in 1..2
  /\ argv \in IF argc = 1 THEN { << >> }
              ELSE { << w >> : w \in FullWords }
  /\ s \in IF argc = 1 THEN { InitialStack }
           ELSE { InitialStack } \cup
                { FullStack(STACK_SIZE - d) : d \in 2..4 }
  /\ Start

SpecFull == InitFull /\ [][Next]_vars

\* Command line words with characters that are no terminal of wtf: upper
\* case letters, and a letter that is in no rule.
Symbols == Alphabet \cup {"A", "B", "S", "d"}

RECURSIVE SymbolWordsOfLen(_)
SymbolWordsOfLen(n) ==
  IF n = 0 THEN { << >> }
  ELSE { Append(w, c) : w \in SymbolWordsOfLen(n - 1), c \in Symbols }

SymbolWords == UNION { SymbolWordsOfLen(n) : n \in 0..MaxWordLen - 2 }

InitSymbols ==
  /\ g = wtf
  /\ argc \in 1..2
  /\ argv \in IF argc = 1 THEN { << >> }
              ELSE { << w >> : w \in SymbolWords }
  /\ s = InitialStack
  /\ Start

SpecSymbols == InitSymbols /\ [][Next]_vars

\* A caller that searches the same word twice: ret = run_pda(g, argv[1], s)
\* once more, keeping what the first search printed and returned.
SearchAgain ==
  /\ pc = "exit"
  /\ argc = 2
  /\ ~ first.done
  /\ first' = [done |-> TRUE, out |-> out, ret |-> ret]
  /\ frames' = << Activation(0, s) >>
  /\ pc' = "in_run_pda"
  /\ UNCHANGED << g, argc, argv, s, ret, rv, out, err, status, oob >>

NextTwice == Next \/ SearchAgain

SpecTwice == Init /\ [][NextTwice]_vars

\* ================================================================== claims
Exited == pc = "exit" /\ argc = 2

Depth == Len(frames)

\* the activations left when the running one is gone, written out
Below == [i \in 1..Depth - 1 |-> frames[i]]

\* the rules of the nonterminal the running activation popped
TopRules == g[Top.top_stack].rules

\* the word is read to its end by the running activation
AtEnd == Top.word = Len(argv[1])

EmptyConfig == [kind |-> "config", a |-> << >>, b |-> << >>]

\* C1: for the built-in grammar, the search started with the stack holding
\* only S returns true for a word exactly when the word is a^n b^m c^m with
\* n >= 1 and m >= 1 (every word over a, b, c up to MaxWordLen characters).
C1_Language == Exited => (ret = IsAnBmCm(argv[1]))

C1_Witness ==
  /\ Exited
  /\ ret
  /\ argv[1] = << "a", "b", "b", "c", "c" >>

\* main has returned the verdict of a search that stayed inside its stack,
\* and the verdict is right.
Decided ==
  /\ Exited
  /\ oob = {}
  /\ ret = InLanguage(g, argv[1])

C3_Bounded ==
  /\ oob = {}
  /\ \A i \in 1..Depth : frames[i].stack.top <= STACK_SIZE
  /\ pc # "killed"

\* The stack an activation was called with, from what its caller holds.
Arg(i) ==
  IF i = 1 THEN s
  ELSE IF frames[i - 1].pc = "called"
       THEN [content |-> frames[i - 1].stack.content \o
                         Reverse(g[frames[i - 1].top_stack].rules
                                   [frames[i - 1].rule_pointer]),
             top |-> frames[i - 1].stack.top +
                     Len(g[frames[i - 1].top_stack].rules
                           [frames[i - 1].rule_pointer])]
       ELSE frames[i - 1].stack

Popped(st) ==
  [content |-> [k \in 1..st.top - 1 |-> st.content[k]], top |-> st.top - 1]

\* Every activation holds the stack it was called with, less the symbol it
\* popped: nothing a callee or an earlier alternative did shows in it.
StacksIntact ==
  \A i \in 1..Depth :
    frames[i].stack = IF frames[i].pc = "entry" THEN Arg(i)
                      ELSE Popped(Arg(i))

\* C4: no step changes main's stack or the stack of an activation that
\* stays, but the pop of the running activation at its entry; so a caller
\* finds its stack as it was before the call, and every alternative is
\* started from the caller's stack with the nonterminal popped.
C4_CopyOnBranch ==
  [][/\ s' = s
     /\ \A i \in 1..Depth :
          i <= Len(frames') =>
            \/ frames'[i].stack = frames[i].stack
            \/ /\ i = Depth
               /\ Len(frames') = Depth
               /\ frames[i].pc = "entry"
               /\ frames'[i].stack = Popped(frames[i].stack)
     /\ StacksIntact']_vars

C4_Witness ==
  /\ Depth >= 2
  /\ Top.pc = "entry"
  /\ frames[Depth - 1].pc = "called"
  /\ frames[Depth - 1].top_stack = "A"
  /\ frames[Depth - 1].rule_pointer = 2
  /\ frames[Depth - 1].word = 1

\* C5: a call entered with an empty stack returns whether the word is read
\* to its end; the value returned turns true in no other step; and an
\* accepting main has printed the configuration with nothing on the stack
\* and nothing left of the word.
C5_EmptyStack ==
  [][/\ (Running("entry") /\ Top.stack.top = 0) =>
          (rv' = AtEnd /\ frames' = Below)
     /\ (rv' /\ ~ rv) =>
          (Running("entry") /\ Top.stack.top = 0 /\ AtEnd)
     /\ (pc' = "exit" /\ argc = 2 /\ ret') =>
          \E i \in 1..Len(out) : out[i] = EmptyConfig]_vars

C5_Witness ==
  /\ pc = "in_run_pda"
  /\ out # << >>
  /\ out[Len(out)].kind = "config"
  /\ out[Len(out)].b = << >>
  /\ out[Len(out)].a = << "c" >>
  /\ ~ rv

\* C6: in every activation the rule pointer starts at the first rule and
\* moves by one rule, and only when the activation runs again with the
\* call for the rule before returned false; with a rule at the pointer the
\* next step is the call for exactly that rule; the loop is left with
\* false only with the pointer behind the last rule.
C6_DeclaredOrder ==
  [][/\ \A i \in 1..Depth - 1 :
          i <= Len(frames') =>
            frames'[i].rule_pointer = frames[i].rule_pointer
     /\ (frames # << >> /\ Len(frames') >= Depth) =>
          \/ frames'[Depth].rule_pointer = Top.rule_pointer
          \/ /\ Top.pc = "entry"
             /\ Len(frames') = Depth
             /\ frames'[Depth].rule_pointer = 1
          \/ /\ Top.pc = "called"
             /\ ~ rv
             /\ Len(frames') = Depth
             /\ frames'[Depth].pc = "loop"
             /\ frames'[Depth].rule_pointer = Top.rule_pointer + 1
     /\ (Running("loop") /\ Top.rule_pointer \in 1..Len(TopRules)) =>
          /\ Len(frames') = Depth + 1
          /\ frames'[Depth].pc = "called"
          /\ frames'[Depth].rule_pointer = Top.rule_pointer
          /\ frames'[Depth + 1].pc = "entry"
          /\ frames'[Depth + 1].stack.content =
               Top.stack.content \o Reverse(TopRules[Top.rule_pointer])
     /\ (Running("loop") /\ Len(frames') < Depth) =>
          Top.rule_pointer = Len(TopRules) + 1]_vars

C6_Witness ==
  /\ Running("loop")
  /\ Top.top_stack = "B"
  /\ Top.rule_pointer = 2
  /\ Top.word = 2
  /\ ~ rv

\* C7: a call that returned true makes the expanding activation return true
\* at once; from the first true on no activation is started and no
\* configuration is printed, the activations only return; and with the
\* pointer behind the last rule the expanding activation returns false.
C7_ShortCircuit ==
  [][/\ (Running("called") /\ rv) => (rv' /\ frames' = Below)
     /\ rv => /\ rv'
              /\ frames' \in { frames, Below }
              /\ pc' = "in_run_pda" => out' = out
     /\ (Running("loop") /\ Top.rule_pointer > Len(TopRules)) =>
          (~ rv' /\ frames' = Below)]_vars

C7_Witness ==
  /\ Running("called")
  /\ rv
  /\ Top.top_stack = "A"
  /\ Top.rule_pointer < Len(TopRules)

\* C8: with a terminal popped, a word that is over or that goes on with
\* another character makes the call return false with nothing printed and
\* nothing called; otherwise the call it makes is for the stack without
\* the terminal and the word one character further, and it returns what
\* that call returned.
C8_Terminal ==
  [][/\ (Running("entry") /\ Top.stack.top # 0) =>
          /\ Len(frames') = Depth
          /\ frames'[Depth].top_stack = Top.stack.content[Top.stack.top]
          /\ frames'[Depth].stack = Popped(Top.stack)
          /\ frames'[Depth].word = Top.word
          /\ frames'[Depth].pc = "terminal" <=>
               ~ isupper(Top.stack.content[Top.stack.top])
     /\ Running("terminal") =>
          IF AtEnd \/ argv[1][Top.word + 1] # Top.top_stack
          THEN ~ rv' /\ frames' = Below /\ out' = out
          ELSE /\ Len(frames') = Depth + 1
               /\ frames'[Depth].pc = "matched"
               /\ frames'[Depth + 1].pc = "entry"
               /\ frames'[Depth + 1].stack = Top.stack
               /\ frames'[Depth + 1].word = Top.word + 1
               /\ \A i \in 1..Depth - 1 : frames'[i] = frames[i]
     /\ Running("matched") => (rv' = rv /\ frames' = Below)]_vars

C8_Witness ==
  /\ Depth >= 2
  /\ Top.pc = "entry"
  /\ frames[Depth - 1].pc = "matched"
  /\ frames[Depth - 1].top_stack = "b"
  /\ Top.word = 2

\* what run_pda and the verdict add to stdout after the grammar
Searched(lines) == SelectSeq(lines, LAMBDA l : l.kind # "rule")

\* C9: a second search of the same grammar, stack and word prints the
\* configurations of the first in the same order and returns what the
\* first returned.
C9_Pure ==
  (pc = "exit" /\ first.done) =>
    /\ ret = first.ret
    /\ out = first.out \o Searched(first.out)

C9_Witness ==
  /\ pc = "exit"
  /\ first.done
  /\ ret
  /\ argv[1] = << "a", "a", "b", "c" >>

\* C10: the exit status is EXIT_SUCCESS after a search that returned true,
\* EXIT_FAILURE after one that returned false, and neither of the two when
\* argc is not 2; and then nothing is printed on stdout and run_pda is
\* never entered.
C10_ExitStatus ==
  /\ EXIT_SUCCESS # EXIT_FAILURE
  /\ argc # 2 => /\ out = << >>
                 /\ frames = << >>
                 /\ pc \in {"start", "exit"}
  /\ pc = "exit" =>
       IF argc # 2
       THEN status \notin {EXIT_SUCCESS, EXIT_FAILURE}
       ELSE /\ ret = rv
            /\ ret => status = EXIT_SUCCESS
            /\ ~ ret => status = EXIT_FAILURE

C10_Witness ==
  /\ pc = "exit"
  /\ argc = 3
  /\ err # << >>

\* the read heads of the activations entered so far, as stdout has them
ReadHeads ==
  { Len(argv[1]) - Len(out[i].a) :
      i \in { k \in 1..Len(out) : out[k].kind = "config" } }

\* C11 as claimed: over a whole search the read head never moves back: the
\* character about to be compared with a popped terminal is one that no
\* activation entered so far has its read head behind.
C11_Original ==
  (Running("terminal") /\ ~ AtEnd) => \A h \in ReadHeads : h <= Top.word

\* C11 as amended: the word is never written, and the read head moves left
\* to right along every chain of activations: a callee starts where its
\* caller is, the only step that moves a read head is the word++ of the
\* running activation after a character compared equal, by one character,
\* and a return leaves the caller's read head where it was (so a later
\* alternative reads the same characters again).
C11_LeftToRight ==
  [][/\ argv' = argv
     /\ \A i \in 1..Len(frames') - 1 : frames'[i].word <= frames'[i + 1].word
     /\ \A i \in 1..Depth :
          i <= Len(frames') =>
            \/ frames'[i].word = frames[i].word
            \/ /\ i = Depth
               /\ Running("terminal")
               /\ ~ AtEnd
               /\ argv[1][Top.word + 1] = Top.top_stack
               /\ frames'[i].word = frames[i].word + 1
     /\ Len(frames') = Depth + 1 =>
          frames'[Depth + 1].word = IF Depth = 0 THEN 0
                                    ELSE frames'[Depth].word]_vars

\* the a of "ab" is about to be compared a second time, for A -> a, after
\* A -> aA had the read head behind it
C11_Witness ==
  /\ Running("terminal")
  /\ argv[1] = << "a", "b" >>
  /\ Top.word = 0
  /\ Top.top_stack = "a"
  /\ 1 \in ReadHeads

\* a stack read from its uppermost symbol down to content[0]
StackRead(st) == [i \in 1..st.top |-> st.content[st.top + 1 - i]]

\* C12: the activation that finds the nonterminal N uppermost on the stack
\* N s1 .. sj goes on with the stack s1 .. sj; its call for the rule
\* x1 .. xk is a call with the stack x1 .. xk s1 .. sj, and that is the
\* stack the callee prints, uppermost symbol first.
C12_Expand ==
  [][/\ (Running("entry") /\ Top.stack.top # 0) =>
          /\ Len(frames') = Depth
          /\ StackRead(Top.stack) =
               << frames'[Depth].top_stack >> \o StackRead(frames'[Depth].stack)
     /\ (Running("loop") /\ Top.rule_pointer \in 1..Len(TopRules)) =>
          /\ Len(frames') = Depth + 1
          /\ frames'[Depth].stack = Top.stack
          /\ StackRead(frames'[Depth + 1].stack) =
               TopRules[Top.rule_pointer] \o StackRead(Top.stack)
     /\ (Running("entry") /\ Depth >= 2 /\ frames[Depth - 1].pc = "called") =>
          out'[Len(out')].b =
            g[frames[Depth - 1].top_stack].rules[frames[Depth - 1].rule_pointer]
              \o StackRead(frames[Depth - 1].stack)]_vars

\* B on B c expanded with bBc: the callee is entered with b B c c
C12_Witness ==
  /\ Running("entry")
  /\ Depth >= 2
  /\ frames[Depth - 1].pc = "called"
  /\ frames[Depth - 1].top_stack = "B"
  /\ StackRead(frames[Depth - 1].stack) = << "c" >>
  /\ StackRead(Top.stack) = << "b", "B", "c", "c" >>

\* the longest form a search of a word of MaxWordLen characters holds
FormLen == 2 * MaxWordLen + 3

\* the left sentential forms of every grammar searched, from S
LeftForms == [gr \in Grammars |-> LeftClosure(gr, { << "S" >> }, FormLen)]

\* the characters an activation's read head is behind
Consumed(word) == SubSeq(argv[1], 1, word)

\* the configuration of an activation: what is consumed, then the stack
\* from the uppermost symbol down, the symbol popped and not yet replaced
\* or matched included
Form(f) ==
  Consumed(f.word)
    \o (IF f.pc \in {"loop", "called", "terminal"} THEN << f.top_stack >>
        ELSE << >>)
    \o StackRead(f.stack)

\* C13: for every grammar, the consumed characters followed by the stack,
\* uppermost symbol first, are a left sentential form of the grammar, in
\* every activation and in every configuration printed; and a search that
\* returned true has searched a word of the language.
C13_Sentential ==
  argc = 2 =>
    /\ \A i \in 1..Depth : Form(frames[i]) \in LeftForms[g]
    /\ \A i \in 1..Len(out) :
         out[i].kind = "config" =>
           Consumed(Len(argv[1]) - Len(out[i].a)) \o out[i].b \in LeftForms[g]
    /\ (Exited /\ ret) => InLanguage(g, argv[1])

\* S -> aSb | (empty) on aabb: a a are consumed over S b b
C13_Witness ==
  /\ g = Eps
  /\ Running("loop")
  /\ Top.rule_pointer = 2
  /\ Form(Top) = << "a", "a", "S", "b", "b" >>
  /\ argv[1] = << "a", "a", "b", "b" >>

\* C14: an activation that expands a nonterminal keeps the read head it was
\* entered with, whatever its callees read; every call it makes for a rule
\* is a call with that same read head, and the callee prints the very word
\* the expanding activation printed.
C14_NoInput ==
  [][/\ \A i \in 1..Depth :
          (i <= Len(frames') /\ frames[i].pc \in {"entry", "loop", "called"})
            => frames'[i].word = frames[i].word
     /\ (Running("loop") /\ Top.rule_pointer \in 1..Len(TopRules)) =>
          /\ Len(frames') = Depth + 1
          /\ frames'[Depth + 1].word = Top.word
     /\ (Running("entry") /\ Depth >= 2 /\ frames[Depth - 1].pc = "called") =>
          /\ out'[Len(out')].a = Rest(frames[Depth - 1].word)
          /\ \E k \in 1..Len(out) :
               /\ out[k].kind = "config"
               /\ out[k].a = out'[Len(out')].a
               /\ out[k].b = << frames[Depth - 1].top_stack >>
                               \o StackRead(frames[Depth - 1].stack)]_vars

\* abc: B -> bBc has consumed the b and failed; B -> bc is tried from the
\* b again
C14_Witness ==
  /\ Running("entry")
  /\ Depth >= 2
  /\ frames[Depth - 1].pc = "called"
  /\ frames[Depth - 1].top_stack = "B"
  /\ frames[Depth - 1].rule_pointer = 2
  /\ Top.word = 1
  /\ 2 \in ReadHeads

\* the nonterminal N has no production: no entry in the table, or an entry
\* with the end marker alone
NoProduction(N) == g[N].null \/ g[N].rules = << >>

\* C15: an activation that pops a nonterminal without a production enters
\* the production loop with its read head where it was, and its next step
\* is the return of false: nothing is called, nothing is printed, nothing
\* is read.
C15_NoProduction ==
  [][/\ (/\ Running("entry")
         /\ Top.stack.top # 0
         /\ isupper(Top.stack.content[Top.stack.top])
         /\ NoProduction(Top.stack.content[Top.stack.top])) =>
          /\ Len(frames') = Depth
          /\ frames'[Depth].pc = "loop"
          /\ frames'[Depth].word = Top.word
     /\ (Running("loop") /\ NoProduction(Top.top_stack)) =>
          /\ Top.rule_pointer = 1
          /\ ~ rv'
          /\ frames' = Below
          /\ out' = out
          /\ pc' = pc]_vars

\* S -> aY | Yb | a on a word that begins with a: the a is matched, Y is
\* popped, and false is back in the activation that matched the a
C15_Witness ==
  /\ g = NoRule
  /\ Running("matched")
  /\ ~ rv
  /\ Top.top_stack = "a"
  /\ out[Len(out)].b = << "Y" >>

\* the running activation is in its production loop at an empty rule
AtEmptyRule ==
  /\ Top.rule_pointer \in 1..Len(TopRules)
  /\ TopRules[Top.rule_pointer] = << >>

\* C16: with an empty right hand side at the rule pointer the next step is
\* a call, with the stack as the pop of the nonterminal left it and with
\* the same read head; when that call returned false the loop goes on with
\* the rule after the empty one, and it is left with false only behind the
\* last rule.
C16_EmptyRule ==
  [][/\ (Running("loop") /\ AtEmptyRule) =>
          /\ Len(frames') = Depth + 1
          /\ frames'[Depth].pc = "called"
          /\ frames'[Depth + 1].pc = "entry"
          /\ frames'[Depth + 1].stack = Top.stack
          /\ frames'[Depth + 1].word = Top.word
     /\ (Running("called") /\ AtEmptyRule /\ ~ rv) =>
          /\ Len(frames') = Depth
          /\ frames'[Depth].pc = "loop"
          /\ frames'[Depth].rule_pointer = Top.rule_pointer + 1
     /\ (Running("loop") /\ Len(frames') < Depth) =>
          Top.rule_pointer = Len(TopRules) + 1]_vars

\* S -> (empty) | aS | b on the word a: the empty rule failed on a, and aS,
\* the rule after it, has returned true
C16_Witness ==
  /\ g = EpsFirst
  /\ Depth = 1
  /\ Running("called")
  /\ Top.rule_pointer = 2
  /\ rv
  /\ argv[1] = << "a" >>

\* C17: for the built-in grammar the process ends in no other way than by
\* main's return of the result the search returned: every activation has
\* returned, and ret is the value of the outermost one.
C17_Terminates ==
  (g = wtf /\ argc = 2 /\ pc \in {"exit", "killed"}) =>
    /\ pc = "exit"
    /\ frames = << >>
    /\ ret = rv
    /\ status = IF ret THEN EXIT_SUCCESS ELSE EXIT_FAILURE

\* The characters consumed before run_pda was called with s: none for the
\* stack holding S; for k letters c under one B, an a and k letters b.
ConsumedBefore == IF s = InitialStack THEN 0 ELSE s.top

\* the letters b matched up to the read head of the running activation
BsMatched ==
  (IF s = InitialStack THEN 0 ELSE s.top - 1)
    + Cardinality({ i \in 1..Top.word : argv[1][i] = "b" })

\* C18: for the built-in grammar no activation's stack holds more than
\* three symbols more than the characters consumed, so no more than the
\* length of the word plus three; a word of at most STACK_SIZE - 3
\* characters leads to no write outside content[], a write outside comes
\* only with STACK_SIZE - 2 letters b matched, and with so many matched the
\* expansion of B with bBc is such a write.
C18_Depth ==
  /\ [](argc = 2 =>
         /\ \A i \in 1..Depth :
              /\ frames[i].stack.top <= ConsumedBefore + frames[i].word + 3
              /\ frames[i].stack.top <= ConsumedBefore + Len(argv[1]) + 3
         /\ ConsumedBefore + Len(argv[1]) <= STACK_SIZE - 3 =>
              /\ oob = {}
              /\ \A i \in 1..Depth : frames[i].stack.top <= STACK_SIZE
         /\ oob # {} => BsMatched >= STACK_SIZE - 2)
  /\ [][(/\ Running("loop")
          /\ Top.top_stack = "B"
          /\ Top.rule_pointer = 1
          /\ BsMatched >= STACK_SIZE - 2) => oob' # {}]_vars

\* an a and STACK_SIZE - 2 letters b are consumed, and bBc is written over
\* the end of content[]
C18_Witness ==
  /\ s = FullStack(STACK_SIZE - 2)
  /\ oob = { STACK_SIZE }
  /\ Depth = 2
  /\ Top.stack.top = STACK_SIZE + 1
  /\ frames[1].top_stack = "B"

\* the symbols in the right hand sides of a grammar
RuleSymbols(gr) ==
  UNION { { r[i] : i \in 1..Len(r) } :
            r \in UNION { RulesOf(gr, N) : N \in Upper } }

\* a character no terminal of the built-in grammar is equal to
Foreign(c) == isupper(c) \/ c \notin RuleSymbols(wtf)

\* C19: the symbol an activation is about to compare, or has compared
\* equal, with the input is not an upper case letter, and the symbol of an
\* activation in its production loop is one; and the verdict on a word with
\* an upper case letter, or with a character that is in no rule of the
\* built-in grammar, is false.
C19_TerminalsOnly ==
  argc = 2 =>
    /\ \A i \in 1..Depth :
         /\ frames[i].pc \in {"terminal", "matched"} =>
              ~ isupper(frames[i].top_stack)
         /\ frames[i].pc = "matched" =>
              argv[1][frames[i].word] = frames[i].top_stack
         /\ frames[i].pc \in {"loop", "called"} =>
              isupper(frames[i].top_stack)
    /\ (pc = "exit" /\ \E i \in 1..Len(argv[1]) : Foreign(argv[1][i])) =>
         /\ ~ ret
         /\ status = EXIT_FAILURE

\* the word aBc: the a is matched, B is uppermost on the stack before the
\* B of the word, and the verdict is false
C19_Witness ==
  /\ pc = "exit"
  /\ argc = 2
  /\ argv[1] = << "a", "B", "c" >>
  /\ ~ ret
  /\ \E i \in 1..Len(out) :
       /\ out[i].kind = "config"
       /\ out[i].a = << "B", "c" >>
       /\ out[i].b = << "B" >>

====
